---- MODULE Spec2Model ----
(***************************************************************************)
(* Model of the real-time fan-out hub of the shopping-list backend:        *)
(*   src/backend-go/internal/websocket/hub.go     (Hub, registry, router)  *)
(*   src/backend-go/internal/websocket/client.go  (readPump, writePump,    *)
(*                                                 handleClientMessage)    *)
(* The hub loop (Hub.Run) is one goroutine; receiving a request and        *)
(* running its handler are two actions.  A Broadcast* call is a publisher  *)
(* blocked until the loop receives its message.                            *)
(* Every connection has a reader goroutine and a writer                    *)
(* goroutine; their channel operations are the steps of the model.  A Go   *)
(* panic (close of a closed channel, send on a closed channel) is not      *)
(* recovered anywhere in these goroutines, so it ends the process: the     *)
(* variable panicked records it and no action is enabled afterwards.  A    *)
(* GetOnlineUsers call is a goroutine that holds the registry's read lock  *)
(* while it ranges over the map; the hub's handlers take the lock they     *)
(* ask for within their step.                                              *)
(***************************************************************************)
EXTENDS Integers, Sequences, FiniteSets, TLC

(* ---------------------------- bounds ----------------------------------- *)

\* Capacity of a connection's outbound queue.  The program uses 256
\* (hub.go:327, make(chan Message, 256)); the model scales it down.
SendCap == 2

\* Number of events of the environment in one behaviour, besides the
\* successful ServeWS calls (one per connection): Broadcast* calls,
\* inbound frames, failed upgrades and transport failures.
MaxInputs == 2

\* The same number in the narrower environment of ListSpec, which is
\* explored one event deeper.
MaxListInputs == 3

(* ------------------------- the finite universe ------------------------- *)

\* Connections that can ever be created, and the user each one belongs to
\* (Client.UserID is fixed at construction, hub.go:322-329).
Conns == {"a1", "a2", "b1"}

UserID == [c \in Conns |-> IF c = "b1" THEN 2 ELSE 1]

Users == {1, 2}

\* list ids an inbound frame or a Broadcast* call may carry; 0 is the value
\* of an absent list_id (ClientMessage.ListID, client.go:28).
ListIDs == {0, 1}

MessageTypeListUpdate == "list_update"
MessageTypeItemUpdate == "item_update"
MessageTypeShareUpdate == "share_update"
MessageTypeNotification == "notification"
MessageTypeUserOnline == "user_online"
MessageTypeUserOffline == "user_offline"

ClientMessageSubscribe == "subscribe"
ClientMessageUnsubscribe == "unsubscribe"
ClientMessagePing == "ping"

\* A Message value (hub.go:25-31) without its opaque payload.  Fields not
\* set by the constructor keep Go's zero value; Time is only set by
\* writePump (client.go:96).
Message(type, userID, listID) ==
    [type |-> type, user_id |-> userID, list_id |-> listID, time |-> 0]

NoMessage == Message("", 0, 0)

\* Inbound frames that decode to a ClientMessage (client.go:26-30); "other"
\* stands for every type handleClientMessage has no case for, and a frame
\* may also carry a negative list_id.
ClientMessages ==
    [type : {ClientMessageSubscribe, ClientMessageUnsubscribe, "other"},
     list_id : ListIDs \cup {-1}]
    \cup {[type |-> ClientMessagePing, list_id |-> 0]}

\* Messages the exported Broadcast* methods build (hub.go:231-269).
BroadcastListUpdate(listID) == Message(MessageTypeListUpdate, 0, listID)
BroadcastItemUpdate(listID) == Message(MessageTypeItemUpdate, 0, listID)
BroadcastShareUpdate(userID) == Message(MessageTypeShareUpdate, userID, 0)
BroadcastNotification(userID) == Message(MessageTypeNotification, userID, 0)

Published ==
    {BroadcastListUpdate(l) : l \in ListIDs}
    \cup {BroadcastItemUpdate(l) : l \in ListIDs}
    \cup {BroadcastShareUpdate(u) : u \in Users}
    \cup {BroadcastNotification(u) : u \in Users}

\* Presence messages a collaborator may send on h.Broadcast.  No Broadcast*
\* method builds one, but h.Broadcast is an exported channel of Message and
\* broadcastMessage has a case for both types (hub.go:142-144).
Presence ==
    {Message(MessageTypeUserOnline, 1, 0), Message(MessageTypeUserOffline, 2, 0)}

Broadcastable == Published \cup Presence

\* Goroutines (HTTP handlers) that can be inside a Broadcast* call.
Publishers == {"p1", "p2"}

\* Goroutines (HTTP handlers) that can be inside a GetOnlineUsers call.
Callers == {"g1"}

\* What the hub loop is doing: blocked in the select of Run, or inside the
\* handler of the value it received (hub.go:75-85).
HubAt(op, client, message) ==
    [op |-> op, client |-> client, message |-> message]

HubSelect == HubAt("select", "", NoMessage)

(* ------------------------------ state ---------------------------------- *)

VARIABLES
    Clients,     \* Hub.Clients: user id -> set of connections (a Go map: a
                 \* function whose domain is the set of keys present)
    Send,        \* Client.Send: the buffered content of each outbound queue
    closed,      \* whether close() has been called on Client.Send
    Lists,       \* Client.Lists: the connection's subscription set
    srv,         \* position of the ServeWS call that creates the connection
    rd,          \* position of the connection's readPump goroutine
    wr,          \* position of the connection's writePump goroutine
    wn,          \* writePump: queued messages still to coalesce (n - i)
    connClosed,  \* whether Conn.Close() has been called on the transport
    panicked,    \* "none", or the runtime panic that ended the process
    hub,         \* position of the Hub.Run goroutine
    pub,         \* per publisher: the message its Broadcast* call is blocked
                 \* sending on h.Broadcast, NoMessage outside a call
    wire,        \* per connection: the messages writePump has written so far
                 \* into the text frame it is building (the writer `w`);
                 \* empty once w.Close() has sent the frame
    nInputs,     \* events of the environment still to come
    reading      \* the GetOnlineUsers calls that hold h.mutex.RLock and
                 \* are ranging over h.Clients

vars == <<Clients, Send, closed, Lists, srv, rd, wr, wn, connClosed,
          panicked, hub, pub, wire, nInputs, reading>>

\* The state after NewHub, with n events of the environment to come.
InitWith(n) ==
    /\ Clients = [u \in {} |-> {}]
    /\ Send = [c \in Conns |-> << >>]
    /\ closed = [c \in Conns |-> FALSE]
    /\ Lists = [c \in Conns |-> {}]
    /\ srv = [c \in Conns |-> "idle"]
    /\ rd = [c \in Conns |-> "none"]
    /\ wr = [c \in Conns |-> "none"]
    /\ wn = [c \in Conns |-> 0]
    /\ connClosed = [c \in Conns |-> FALSE]
    /\ panicked = "none"
    /\ hub = HubSelect
    /\ pub = [p \in Publishers |-> NoMessage]
    /\ wire = [c \in Conns |-> << >>]
    /\ nInputs = n
    /\ reading = {}

Init == InitWith(MaxInputs)

(* --------------------------- the registry ------------------------------ *)

\* All connections referenced by a registry map.
Registered(clients) == UNION {clients[u] : u \in DOMAIN clients}

\* h.Clients[userID], nil (empty) when the key is absent.
ConnectionsForUser(clients, userID) ==
    IF userID \in DOMAIN clients THEN clients[userID] ELSE {}

\* GetOnlineUsers: the keys of the map.
GetOnlineUsers(clients) == DOMAIN clients

\* delete(h.Clients, userID)
MapDeleteUser(clients, userID) ==
    [u \in DOMAIN clients \ {userID} |-> clients[u]]

\* h.Clients[userID][client] = true, creating the inner map when absent.
MapInsert(clients, client) ==
    [u \in DOMAIN clients \cup {UserID[client]} |->
        IF u = UserID[client]
        THEN ConnectionsForUser(clients, u) \cup {client}
        ELSE clients[u]]

\* A drop that forgets `if len(clients) == 0 { delete(h.Clients, userID) }`.
DropFromRegistry_KeepsEmptyEntry(clients, client) ==
    [clients EXCEPT ![UserID[client]] = @ \ {client}]

\* The default branch of every hub select: delete(clients, client) and,
\* if the user's set became empty, delete(h.Clients, userID).
DropFromRegistry(clients, client) ==
    LET u == UserID[client]
        rest == clients[u] \ {client}
    IN IF rest = {} THEN MapDeleteUser(clients, u)
       ELSE [clients EXCEPT ![u] = rest]

(* --------------------- the hub's non-blocking send --------------------- *)

\* The state a hub handler works on: the registry and the queues.
HubState ==
    [Clients |-> Clients, Send |-> Send, closed |-> closed, panicked |-> "none"]

\* A send that puts the message at the head of the queue instead of its
\* tail.
TrySend_PushFront(st, client, message) ==
    IF st.closed[client]
    THEN [st EXCEPT !.panicked = "send on closed channel"]
    ELSE IF Len(st.Send[client]) < SendCap
    THEN [st EXCEPT !.Send[client] = <<message>> \o @]
    ELSE [st EXCEPT !.closed[client] = TRUE,
                    !.Clients = DropFromRegistry(@, client)]

\* select { case client.Send <- message: default: close(client.Send);
\*          delete(clients, client); if len(clients) == 0 {delete(...)} }
\* A send on a closed channel panics, also inside a select with a default.
TrySend(st, client, message) ==
    IF st.closed[client]
    THEN [st EXCEPT !.panicked = "send on closed channel"]
    ELSE IF Len(st.Send[client]) < SendCap
    THEN [st EXCEPT !.Send[client] = Append(@, message)]
    ELSE [st EXCEPT !.closed[client] = TRUE,
                    !.Clients = DropFromRegistry(@, client)]

\* Orders in which `for userID, clients := range h.Clients { for client :=
\* range clients {` can visit the connections: Go leaves the order of a map
\* range unspecified, but the nesting keeps a user's connections together.
\* An order lists every connection; the ones not in the map are skipped.
Perms(S) ==
    {f \in [1..Cardinality(S) -> S] :
        \A i, j \in 1..Cardinality(S) : i # j => f[i] # f[j]}

IterOrders ==
    {f \in Perms(Conns) :
        \A i, j, k \in 1..Cardinality(Conns) :
            (i < j /\ j < k /\ UserID[f[i]] = UserID[f[k]])
                => UserID[f[j]] = UserID[f[i]]}

\* The range loop: visit the connections of `iter` that are (still) in the
\* registry and belong to `dests`, TrySend to each; a panic ends the loop.
RECURSIVE RangeSend(_, _, _, _)
RangeSend(st, iter, dests, message) ==
    IF iter = << >> \/ st.panicked # "none" THEN st
    ELSE LET client == Head(iter)
             visit == client \in Registered(st.Clients) /\ client \in dests
         IN RangeSend(IF visit THEN TrySend(st, client, message) ELSE st,
                      Tail(iter), dests, message)

broadcastToListSubscribers(st, iter, message) ==
    RangeSend(st, iter, {c \in Conns : message.list_id \in Lists[c]}, message)

broadcastToUser(st, iter, userID, message) ==
    RangeSend(st, iter, {c \in Conns : UserID[c] = userID}, message)

broadcastToAll(st, iter, message) ==
    RangeSend(st, iter, Conns, message)

broadcastUserStatus(st, iter, userID, messageType) ==
    RangeSend(st, iter, {c \in Conns : UserID[c] # userID},
              Message(messageType, userID, 0))

broadcastMessage(st, iter, message) ==
    CASE message.type \in {MessageTypeListUpdate, MessageTypeItemUpdate} ->
            broadcastToListSubscribers(st, iter, message)
      [] message.type \in {MessageTypeShareUpdate, MessageTypeNotification} ->
            broadcastToUser(st, iter, message.user_id, message)
      [] message.type \in {MessageTypeUserOnline, MessageTypeUserOffline} ->
            broadcastToAll(st, iter, message)
      [] OTHER -> st

registerClient(st, iter, client) ==
    broadcastUserStatus([st EXCEPT !.Clients = MapInsert(@, client)],
                        iter, UserID[client], MessageTypeUserOnline)

\* An unregisterClient without the membership checks of hub.go:110-111.
unregisterClient_NoMembershipCheck(st, iter, client) ==
    LET u == UserID[client]
        s1 == [st EXCEPT !.Clients =
                  IF u \in DOMAIN @ THEN [@ EXCEPT ![u] = @ \ {client}] ELSE @]
    IN IF s1.closed[client]
       THEN [s1 EXCEPT !.panicked = "close of closed channel"]
       ELSE LET s2 == [s1 EXCEPT !.closed[client] = TRUE] IN
            IF ConnectionsForUser(s2.Clients, u) = {}
            THEN broadcastUserStatus(
                     [s2 EXCEPT !.Clients = MapDeleteUser(@, u)],
                     iter, u, MessageTypeUserOffline)
            ELSE s2

unregisterClient(st, iter, client) ==
    LET u == UserID[client] IN
    IF u \in DOMAIN st.Clients /\ client \in st.Clients[u]
    THEN LET s1 == [st EXCEPT !.Clients[u] = @ \ {client}] IN
         IF s1.closed[client]
         THEN [s1 EXCEPT !.panicked = "close of closed channel"]
         ELSE LET s2 == [s1 EXCEPT !.closed[client] = TRUE] IN
              IF s2.Clients[u] = {}
              THEN broadcastUserStatus(
                       [s2 EXCEPT !.Clients = MapDeleteUser(@, u)],
                       iter, u, MessageTypeUserOffline)
              ELSE s2
    ELSE st

\* Write back what a hub handler did.
HubCommit(st) ==
    /\ Clients' = st.Clients
    /\ Send' = st.Send
    /\ closed' = st.closed
    /\ panicked' = st.panicked

(* --------------------- session upgrade (ServeWS) ----------------------- *)

\* One event of the environment is consumed.
Input ==
    /\ nInputs > 0
    /\ nInputs' = nInputs - 1

\* Connection ids are fresh and interchangeable: a2 names the connection
\* user 1 opens after a1.
MayServe(c) ==
    /\ srv[c] = "idle"
    /\ c = "a2" => srv["a1"] # "idle"

\* A ServeWS that logs the failed upgrade and goes on without returning.
ServeWSUpgradeFails_NoReturn(c) ==
    /\ panicked = "none"
    /\ MayServe(c)
    /\ Input
    /\ srv' = [srv EXCEPT ![c] = "at_register"]
    /\ UNCHANGED <<Clients, Send, closed, Lists, rd, wr, wn, connClosed,
                   panicked, hub, pub, wire, reading>>

\* upgrader.Upgrade fails: ServeWS returns before a Client is built.
ServeWSUpgradeFails(c) ==
    /\ panicked = "none"
    /\ MayServe(c)
    /\ Input
    /\ srv' = [srv EXCEPT ![c] = "failed"]
    /\ UNCHANGED <<Clients, Send, closed, Lists, rd, wr, wn, connClosed,
                   panicked, hub, pub, wire, reading>>

\* The upgrade succeeds; the Client is built with an empty queue and an
\* empty subscription set, and ServeWS blocks in `h.Register <- client`.
ServeWSUpgrade(c) ==
    /\ panicked = "none"
    /\ MayServe(c)
    /\ srv' = [srv EXCEPT ![c] = "at_register"]
    /\ UNCHANGED <<Clients, Send, closed, Lists, rd, wr, wn, connClosed,
                   panicked, hub, pub, wire, nInputs, reading>>

(* ----------------------------- Hub.Run --------------------------------- *)

\* case client := <-h.Register.  h.Register is unbuffered: the receive
\* completes ServeWS's send, and ServeWS goes on to start writePump and
\* readPump while the loop enters registerClient.
RunRegister(c) ==
    /\ panicked = "none"
    /\ hub = HubSelect
    /\ srv[c] = "at_register"
    /\ hub' = HubAt("register", c, NoMessage)
    /\ srv' = [srv EXCEPT ![c] = "serving"]
    /\ rd' = [rd EXCEPT ![c] = "read"]
    /\ wr' = [wr EXCEPT ![c] = "select"]
    /\ UNCHANGED <<Clients, Send, closed, Lists, wn, connClosed, panicked, pub,
                   wire, nInputs, reading>>

\* case client := <-h.Unregister.  The receive completes the send in
\* readPump's deferred function, which goes on to close the transport.
RunUnregister(c) ==
    /\ panicked = "none"
    /\ hub = HubSelect
    /\ rd[c] = "at_unregister"
    /\ hub' = HubAt("unregister", c, NoMessage)
    /\ rd' = [rd EXCEPT ![c] = "done"]
    /\ connClosed' = [connClosed EXCEPT ![c] = TRUE]
    /\ UNCHANGED <<Clients, Send, closed, Lists, srv, wr, wn, panicked, pub,
                   wire, nInputs, reading>>

\* A loop that receives the next message while a handler is still running
\* (as `go h.broadcastMessage(message)` would allow).
RunBroadcast_WhileBusy(p) ==
    /\ panicked = "none"
    /\ pub[p] # NoMessage
    /\ hub' = HubAt("broadcast", "", pub[p])
    /\ pub' = [pub EXCEPT ![p] = NoMessage]
    /\ UNCHANGED <<Clients, Send, closed, Lists, srv, rd, wr, wn, connClosed,
                   panicked, wire, nInputs, reading>>

\* case message := <-h.Broadcast.  h.Broadcast is unbuffered: the receive
\* completes the send of a Broadcast* call, which returns.
RunBroadcast(p) ==
    /\ panicked = "none"
    /\ hub = HubSelect
    /\ pub[p] # NoMessage
    /\ hub' = HubAt("broadcast", "", pub[p])
    /\ pub' = [pub EXCEPT ![p] = NoMessage]
    /\ UNCHANGED <<Clients, Send, closed, Lists, srv, rd, wr, wn, connClosed,
                   panicked, wire, nInputs, reading>>

\* h.mutex.Lock() returns once no goroutine holds the read lock.  The hub
\* loop is the only goroutine that takes the write lock, and it takes and
\* releases either lock within one step.
MutexLock == reading = {}

\* h.registerClient(client), then back to the select.
HubRegister(c) ==
    /\ panicked = "none"
    /\ hub = HubAt("register", c, NoMessage)
    /\ MutexLock
    /\ \E iter \in IterOrders : HubCommit(registerClient(HubState, iter, c))
    /\ hub' = HubSelect
    /\ UNCHANGED <<Lists, srv, rd, wr, wn, connClosed, pub, wire, nInputs,
                   reading>>

\* h.unregisterClient(client), then back to the select.
HubUnregister(c) ==
    /\ panicked = "none"
    /\ hub = HubAt("unregister", c, NoMessage)
    /\ MutexLock
    /\ \E iter \in IterOrders : HubCommit(unregisterClient(HubState, iter, c))
    /\ hub' = HubSelect
    /\ UNCHANGED <<Lists, srv, rd, wr, wn, connClosed, pub, wire, nInputs,
                   reading>>

\* A handler that ran under h.mutex.RLock deleted a key of h.Clients
\* (hub.go:163, 181, 198) while a GetOnlineUsers call, also under RLock,
\* was ranging over h.Clients (hub.go:277): a data race on the map.
MapRace(st) ==
    /\ reading # {}
    /\ st.panicked = "none"
    /\ DOMAIN st.Clients # DOMAIN Clients

\* What the race can do to the process: nothing the hub can see, or the
\* runtime detects it and ends the process with a fatal error.
RaceOutcomes(st) ==
    IF MapRace(st)
    THEN {st, [st EXCEPT !.panicked = "concurrent map iteration and map write"]}
    ELSE {st}

\* h.broadcastMessage(message), which takes h.mutex.RLock (hub.go:129) and
\* so also runs while GetOnlineUsers holds the read lock; then back to the
\* select.
HubBroadcast(m) ==
    /\ panicked = "none"
    /\ hub = HubAt("broadcast", "", m)
    /\ \E iter \in IterOrders :
          \E st \in RaceOutcomes(broadcastMessage(HubState, iter, m)) :
              HubCommit(st)
    /\ hub' = HubSelect
    /\ UNCHANGED <<Lists, srv, rd, wr, wn, connClosed, pub, wire, nInputs,
                   reading>>

(* ---------------------------- Broadcast* ------------------------------- *)

\* Publisher ids are interchangeable: p2 is used while p1 is in a call.
MayPublish(p) ==
    /\ pub[p] = NoMessage
    /\ p = "p2" => pub["p1"] # NoMessage

\* BroadcastListUpdate / BroadcastItemUpdate / BroadcastShareUpdate /
\* BroadcastNotification: build the message and block in
\* `h.Broadcast <- message`.
Publish(p, m) ==
    /\ panicked = "none"
    /\ MayPublish(p)
    /\ Input
    /\ pub' = [pub EXCEPT ![p] = m]
    /\ UNCHANGED <<Clients, Send, closed, Lists, srv, rd, wr, wn, connClosed,
                   panicked, hub, wire, reading>>

\* A collaborator sends a presence message on the exported h.Broadcast
\* channel and blocks until the hub loop receives it.
SendPresence(p, m) ==
    /\ panicked = "none"
    /\ MayPublish(p)
    /\ Input
    /\ pub' = [pub EXCEPT ![p] = m]
    /\ UNCHANGED <<Clients, Send, closed, Lists, srv, rd, wr, wn, connClosed,
                   panicked, hub, wire, reading>>

(* -------------------------- GetOnlineUsers ----------------------------- *)

\* h.mutex.RLock() at hub.go:273 (the hub loop holds no lock between its
\* steps, so the call never waits) and the start of the range over
\* h.Clients.
GetOnlineUsersRLock(g) ==
    /\ panicked = "none"
    /\ g \notin reading
    /\ Input
    /\ reading' = reading \cup {g}
    /\ UNCHANGED <<Clients, Send, closed, Lists, srv, rd, wr, wn, connClosed,
                   panicked, hub, pub, wire>>

\* The range ends, the deferred h.mutex.RUnlock() runs and the call
\* returns the keys it collected.
GetOnlineUsersRUnlock(g) ==
    /\ panicked = "none"
    /\ g \in reading
    /\ reading' = reading \ {g}
    /\ UNCHANGED <<Clients, Send, closed, Lists, srv, rd, wr, wn, connClosed,
                   panicked, hub, pub, wire, nInputs>>

(* ----------------------------- readPump -------------------------------- *)

\* The reply handleClientMessage builds for a client message, or NoMessage
\* when it sends none (unknown type, or list_id <= 0).
Response(cm) ==
    CASE cm.type = ClientMessageSubscribe /\ cm.list_id > 0 ->
            Message("subscribed", 0, cm.list_id)
      [] cm.type = ClientMessageUnsubscribe /\ cm.list_id > 0 ->
            Message("unsubscribed", 0, cm.list_id)
      [] cm.type = ClientMessagePing -> Message("pong", 0, 0)
      [] OTHER -> NoMessage

\* A handler without the `if message.ListID > 0` of client.go:139, 161.
NewLists_NoListCheck(lists, cm) ==
    CASE cm.type = ClientMessageSubscribe -> lists \cup {cm.list_id}
      [] cm.type = ClientMessageUnsubscribe -> lists \ {cm.list_id}
      [] OTHER -> lists

\* SubscribeToList / UnsubscribeFromList as called by handleClientMessage.
NewLists(lists, cm) ==
    CASE cm.type = ClientMessageSubscribe /\ cm.list_id > 0 ->
            lists \cup {cm.list_id}
      [] cm.type = ClientMessageUnsubscribe /\ cm.list_id > 0 ->
            lists \ {cm.list_id}
      [] OTHER -> lists

\* handleClientMessage up to and including its
\* `select { case c.Send <- response: default:`.  A send on a closed
\* channel panics.  When the queue is full the default branch is taken and
\* close(c.Send) is the reader's next step (ReaderCloseSend).
handleClientMessage(c, cm) ==
    /\ Lists' = [Lists EXCEPT ![c] = NewLists(@, cm)]
    /\ LET response == Response(cm) IN
       IF response = NoMessage
       THEN UNCHANGED <<Send, rd, panicked>>
       ELSE IF closed[c]
       THEN /\ panicked' = "send on closed channel"
            /\ UNCHANGED <<Send, rd>>
       ELSE IF Len(Send[c]) < SendCap
       THEN /\ Send' = [Send EXCEPT ![c] = Append(@, response)]
            /\ UNCHANGED <<rd, panicked>>
       ELSE /\ rd' = [rd EXCEPT ![c] = "close_send"]
            /\ UNCHANGED <<Send, panicked>>

\* ReadMessage returns a frame that decodes to a ClientMessage.
ReadFrame(c, cm) ==
    /\ panicked = "none"
    /\ rd[c] = "read"
    /\ ~connClosed[c]
    /\ Input
    /\ handleClientMessage(c, cm)
    /\ UNCHANGED <<Clients, closed, srv, wr, wn, connClosed, hub, pub, wire,
                   reading>>

\* A readPump that leaves its loop on a frame json.Unmarshal rejects.
ReadMalformed_Fatal(c) ==
    /\ panicked = "none"
    /\ rd[c] = "read"
    /\ ~connClosed[c]
    /\ Input
    /\ rd' = [rd EXCEPT ![c] = "at_unregister"]
    /\ UNCHANGED <<Clients, Send, closed, Lists, srv, wr, wn, connClosed,
                   panicked, hub, pub, wire, reading>>

\* ReadMessage returns a frame json.Unmarshal rejects: logged, `continue`.
ReadMalformed(c) ==
    /\ panicked = "none"
    /\ rd[c] = "read"
    /\ ~connClosed[c]
    /\ Input
    /\ UNCHANGED <<Clients, Send, closed, Lists, srv, rd, wr, wn, connClosed,
                   panicked, hub, pub, wire, reading>>

\* The default branch of handleClientMessage's select: close(c.Send), and
\* nothing else (the registry is not touched).  Closing a closed channel
\* panics.
ReaderCloseSend(c) ==
    /\ panicked = "none"
    /\ rd[c] = "close_send"
    /\ IF closed[c]
       THEN /\ panicked' = "close of closed channel"
            /\ UNCHANGED closed
       ELSE /\ closed' = [closed EXCEPT ![c] = TRUE]
            /\ UNCHANGED panicked
    /\ rd' = [rd EXCEPT ![c] = "read"]
    /\ UNCHANGED <<Clients, Send, Lists, srv, wr, wn, connClosed, hub, pub,
                   wire, nInputs, reading>>

\* ReadMessage returns an error: the peer closed or sent an oversized frame
\* or the read deadline passed (an event of the environment), or the
\* transport was closed by writePump.  The loop breaks and the deferred
\* function blocks in `c.Hub.Unregister <- c`.
ReadError(c) ==
    /\ panicked = "none"
    /\ rd[c] = "read"
    /\ IF connClosed[c] THEN UNCHANGED nInputs ELSE Input
    /\ rd' = [rd EXCEPT ![c] = "at_unregister"]
    /\ UNCHANGED <<Clients, Send, closed, Lists, srv, wr, wn, connClosed,
                   panicked, hub, pub, wire, reading>>

(* ----------------------------- writePump ------------------------------- *)

\* A reading of time.Now().Unix(): some non-zero number of seconds.
TimeNow == 1

\* message.Time = time.Now().Unix() before json.Marshal (client.go:96, 112).
Stamp(message) == [message EXCEPT !.time = TimeNow]

\* case message, ok := <-c.Send with a message buffered: it is taken off
\* the queue.  NextWriter fails on a closed transport and the pump returns;
\* otherwise the message is written and n := len(c.Send) is read.
WriterRecv(c) ==
    /\ panicked = "none"
    /\ wr[c] = "select"
    /\ Send[c] # << >>
    /\ Send' = [Send EXCEPT ![c] = Tail(@)]
    /\ IF connClosed[c]
       THEN /\ wr' = [wr EXCEPT ![c] = "done"]
            /\ UNCHANGED <<wn, wire>>
       ELSE /\ wn' = [wn EXCEPT ![c] = Len(Send[c]) - 1]
            /\ IF Len(Send[c]) > 1
               THEN /\ wire' = [wire EXCEPT ![c] = <<Stamp(Head(Send[c]))>>]
                    /\ wr' = [wr EXCEPT ![c] = "coalesce"]
               ELSE /\ wire' = [wire EXCEPT ![c] = << >>]
                    /\ wr' = [wr EXCEPT ![c] = "select"]
    /\ UNCHANGED <<Clients, closed, Lists, srv, rd, connClosed, panicked,
                   hub, pub, nInputs, reading>>

\* One round of `for i := 0; i < n; i++ { queuedMessage := <-c.Send ...`;
\* after the last one w.Close() succeeds and the pump selects again.
WriterCoalesce(c) ==
    /\ panicked = "none"
    /\ wr[c] = "coalesce"
    /\ Send' = [Send EXCEPT ![c] = Tail(@)]
    /\ wn' = [wn EXCEPT ![c] = @ - 1]
    /\ IF wn[c] > 1
       THEN /\ wire' = [wire EXCEPT ![c] = Append(@, Stamp(Head(Send[c])))]
            /\ wr' = [wr EXCEPT ![c] = "coalesce"]
       ELSE /\ wire' = [wire EXCEPT ![c] = << >>]
            /\ wr' = [wr EXCEPT ![c] = "select"]
    /\ UNCHANGED <<Clients, closed, Lists, srv, rd, connClosed, panicked,
                   hub, pub, nInputs, reading>>

\* A receive that reports the closure as soon as the queue is closed,
\* whatever is still buffered.
WriterClosed_Eager(c) ==
    /\ panicked = "none"
    /\ wr[c] = "select"
    /\ closed[c]
    /\ wr' = [wr EXCEPT ![c] = "done"]
    /\ connClosed' = [connClosed EXCEPT ![c] = TRUE]
    /\ UNCHANGED <<Clients, Send, closed, Lists, srv, rd, wn, panicked,
                   hub, pub, wire, nInputs, reading>>

\* case message, ok := <-c.Send with ok = false (queue closed and drained):
\* the close frame is written, the pump returns and closes the transport.
WriterClosed(c) ==
    /\ panicked = "none"
    /\ wr[c] = "select"
    /\ Send[c] = << >>
    /\ closed[c]
    /\ wr' = [wr EXCEPT ![c] = "done"]
    /\ connClosed' = [connClosed EXCEPT ![c] = TRUE]
    /\ UNCHANGED <<Clients, Send, closed, Lists, srv, rd, wn, panicked,
                   hub, pub, wire, nInputs, reading>>

\* A write fails (w.Close, or the ping written on a tick): the pump returns
\* and closes the transport.  The failure is an event of the environment
\* unless the transport was already closed by readPump.
WriterFail(c) ==
    /\ panicked = "none"
    /\ wr[c] \in {"select", "coalesce"}
    /\ IF connClosed[c] THEN UNCHANGED nInputs ELSE Input
    /\ wr' = [wr EXCEPT ![c] = "done"]
    /\ wn' = [wn EXCEPT ![c] = 0]
    /\ wire' = [wire EXCEPT ![c] = << >>]
    /\ connClosed' = [connClosed EXCEPT ![c] = TRUE]
    /\ UNCHANGED <<Clients, Send, closed, Lists, srv, rd, panicked, hub, pub,
                   reading>>

(* -------------------------- specification ------------------------------ *)

Next ==
    \/ \E c \in Conns : ServeWSUpgradeFails(c)
    \/ \E c \in Conns : ServeWSUpgrade(c)
    \/ \E c \in Conns : RunRegister(c)
    \/ \E c \in Conns : RunUnregister(c)
    \/ \E p \in Publishers : RunBroadcast(p)
    \/ \E c \in Conns : HubRegister(c)
    \/ \E c \in Conns : HubUnregister(c)
    \/ \E m \in Broadcastable : HubBroadcast(m)
    \/ \E p \in Publishers, m \in Published : Publish(p, m)
    \/ \E p \in Publishers, m \in Presence : SendPresence(p, m)
    \/ \E g \in Callers : GetOnlineUsersRLock(g)
    \/ \E g \in Callers : GetOnlineUsersRUnlock(g)
    \/ \E c \in Conns, cm \in ClientMessages : ReadFrame(c, cm)
    \/ \E c \in Conns : ReadMalformed(c)
    \/ \E c \in Conns : ReaderCloseSend(c)
    \/ \E c \in Conns : ReadError(c)
    \/ \E c \in Conns : WriterRecv(c)
    \/ \E c \in Conns : WriterCoalesce(c)
    \/ \E c \in Conns : WriterClosed(c)
    \/ \E c \in Conns : WriterFail(c)

Spec == Init /\ [][Next]_vars

\* The steps of the Hub.Run goroutine.
HubLoop ==
    \/ \E c \in Conns : RunRegister(c) \/ RunUnregister(c)
    \/ \E p \in Publishers : RunBroadcast(p)
    \/ \E c \in Conns : HubRegister(c) \/ HubUnregister(c)
    \/ \E m \in Broadcastable : HubBroadcast(m)

\* The steps of c's readPump goroutine that need no event of the
\* environment: close(c.Send) after a full queue, and the failed read on a
\* transport writePump has closed.
ReaderLoop(c) == ReaderCloseSend(c) \/ (connClosed[c] /\ ReadError(c))

\* The steps of c's writePump goroutine that need no event of the
\* environment: receiving from c.Send, and the failed write (of a frame, or
\* of the ping on the next tick) on a transport readPump has closed.
WriterLoop(c) ==
    \/ WriterRecv(c) \/ WriterCoalesce(c) \/ WriterClosed(c)
    \/ (connClosed[c] /\ WriterFail(c))

\* The program in an environment that opens connections, sends ping
\* frames, publishes notifications and breaks transports.
NextFair ==
    \/ \E c \in Conns : ServeWSUpgrade(c)
    \/ HubLoop
    \/ \E p \in Publishers, u \in Users : Publish(p, BroadcastNotification(u))
    \/ \E c \in Conns : ReadFrame(c, [type |-> ClientMessagePing, list_id |-> 0])
    \/ \E c \in Conns : ReaderCloseSend(c)
    \/ \E c \in Conns : ReadError(c)
    \/ \E c \in Conns : WriterRecv(c)
    \/ \E c \in Conns : WriterCoalesce(c)
    \/ \E c \in Conns : WriterClosed(c)
    \/ \E c \in Conns : WriterFail(c)

\* The Go scheduler runs every goroutine that can take a step.
FairSpec ==
    /\ Init /\ [][NextFair]_vars
    /\ WF_vars(HubLoop)
    /\ \A c \in Conns : WF_vars(ReaderLoop(c)) /\ WF_vars(WriterLoop(c))

\* The program in an environment that opens connections, subscribes them
\* to list 1 and unsubscribes them, publishes updates of list 1 and ends
\* connections (a failed read); no write fails before the transport is
\* closed.
NextList ==
    \/ \E c \in Conns : ServeWSUpgrade(c)
    \/ HubLoop
    \/ \E p \in Publishers : Publish(p, BroadcastListUpdate(1))
    \/ \E c \in Conns, t \in {ClientMessageSubscribe, ClientMessageUnsubscribe} :
          ReadFrame(c, [type |-> t, list_id |-> 1])
    \/ \E c \in Conns : ReaderCloseSend(c)
    \/ \E c \in Conns : ReadError(c)
    \/ \E c \in Conns : WriterRecv(c)
    \/ \E c \in Conns : WriterCoalesce(c)
    \/ \E c \in Conns : WriterClosed(c)

ListSpec == InitWith(MaxListInputs) /\ [][NextList]_vars

TypeOK ==
    /\ DOMAIN Clients \subseteq Users
    /\ \A u \in DOMAIN Clients : Clients[u] \subseteq Conns
    /\ \A c \in Conns : Len(Send[c]) <= SendCap
    /\ closed \in [Conns -> BOOLEAN]
    /\ Lists \in [Conns -> SUBSET (ListIDs \cup {-1})]
    /\ panicked \in {"none", "send on closed channel", "close of closed channel",
                    "concurrent map iteration and map write"}
    /\ hub.op \in {"select", "register", "unregister", "broadcast"}
    /\ pub \in [Publishers -> Broadcastable \cup {NoMessage}]
    /\ \A c \in Conns : Len(wire[c]) <= SendCap + 1
    /\ nInputs \in 0..(MaxInputs + MaxListInputs)
    /\ reading \subseteq Callers

(* ------------------- vocabulary of the properties ---------------------- *)

Alive == panicked = "none"

AllConnections == Registered(Clients)

UserStatus(messageType, userID) == Message(messageType, userID, 0)

\* The hub step that takes connection c off h.Register / h.Unregister.
RegisterStep(c) == hub = HubAt("register", c, NoMessage) /\ hub' = HubSelect
UnregisterStep(c) == hub = HubAt("unregister", c, NoMessage) /\ hub' = HubSelect

\* What a step did to connection c's queue and registration.
Delivered(c, m) == Send'[c] = Append(Send[c], m)
Untouched(c) == Send'[c] = Send[c]
Shed(c) == closed'[c] /\ c \notin Registered(Clients')

\* The enqueue semantics of the router: the message is enqueued when the
\* queue has room, and the connection is closed and dropped when it is full.
SentOrShed(c, m) ==
    IF Len(Send[c]) < SendCap THEN Delivered(c, m) ELSE Shed(c)

\* The destinations the delivery rules give a published message.
ListScoped(m) == m.type \in {MessageTypeListUpdate, MessageTypeItemUpdate}
UserScoped(m) == m.type \in {MessageTypeShareUpdate, MessageTypeNotification}

Destinations(m) ==
    IF ListScoped(m) THEN {c \in AllConnections : m.list_id \in Lists[c]}
    ELSE IF UserScoped(m) THEN ConnectionsForUser(Clients, m.user_id)
    ELSE {}

OthersOf(userID) == {c \in AllConnections : UserID[c] # userID}

(* ------------------------------- C1 ------------------------------------ *)

\* Every registered connection's queue is open.
QueuesOpen == \A c \in AllConnections : ~closed[c]

C1_Dispatch ==
    /\ \A m \in Published :
          HubBroadcast(m) => \A c \in Destinations(m) : SentOrShed(c, m)
    /\ \A c \in Conns :
          RegisterStep(c) =>
              \A d \in OthersOf(UserID[c]) :
                  SentOrShed(d, UserStatus(MessageTypeUserOnline, UserID[c]))
    /\ \A c \in Conns :
          (UnregisterStep(c) /\ ConnectionsForUser(Clients, UserID[c]) = {c}) =>
              \A d \in OthersOf(UserID[c]) :
                  SentOrShed(d, UserStatus(MessageTypeUserOffline, UserID[c]))

\* C1: in every dispatch of the hub (list-scoped, user-scoped, presence on
\* register, presence on unregister of a last connection) each destination
\* whose queue is full is closed and removed from the registry in that
\* step, and each destination whose queue has room gets the message.
C1_OverflowIsolation == [][C1_Dispatch]_vars

\* C1, restricted to the dispatches that start with every registered queue
\* open (the dispatches the protocol handler's close has not poisoned).
C1_WhenQueuesOpen == [][QueuesOpen => C1_Dispatch]_vars

(* ------------------------------- C2 ------------------------------------ *)

\* C2: no goroutine ever closes an outbound queue that is already closed
\* and none ever sends on a closed queue: the process never panics.
C2_TeardownIdempotent == panicked = "none"

(* ------------------------------- C3 ------------------------------------ *)

\* C3: every connection present in the registry has an open outbound
\* queue.
C3_RegisteredQueuesOpen == \A c \in AllConnections : ~closed[c]

(* ------------------------------- C4 ------------------------------------ *)

\* The registry in every state of a running process: each user maps to
\* exactly the user's connections that were registered and not yet
\* removed (removal is by Unregister, after which the reader is done, or by
\* an overflow drop, which closes the queue; a connection whose Register or
\* Unregister request the loop has received is added or removed when the
\* handler runs), every connection is filed under its own UserID only, and
\* no user maps to an empty set.
C4_Registry ==
    /\ \A u \in DOMAIN Clients : Clients[u] # {}
    /\ \A u \in DOMAIN Clients : \A c \in Clients[u] : UserID[c] = u
    /\ \A c \in AllConnections :
           /\ srv[c] = "serving"
           /\ rd[c] # "done" \/ hub = HubAt("unregister", c, NoMessage)
    /\ \A c \in Conns :
           (/\ srv[c] = "serving" /\ rd[c] # "done" /\ ~closed[c]
            /\ hub # HubAt("register", c, NoMessage))
               => c \in ConnectionsForUser(Clients, UserID[c])
    /\ \A u \in Users :
           (u \in GetOnlineUsers(Clients)) <=> (\E c \in AllConnections : UserID[c] = u)

\* How membership changes: a connection enters the registry only in the
\* step that registers it and always does so; it leaves only in the step
\* that unregisters it, or in a hub step that finds its queue full and
\* closes it; an unregistered connection is never in the registry.
C4_Membership ==
    \A c \in Conns :
        /\ (c \in Registered(Clients') /\ c \notin AllConnections) => RegisterStep(c)
        /\ RegisterStep(c) => c \in ConnectionsForUser(Clients', UserID[c])
        /\ (c \in AllConnections /\ c \notin Registered(Clients')) =>
              \/ UnregisterStep(c)
              \/ Len(Send[c]) = SendCap /\ ~closed[c] /\ closed'[c]
        /\ UnregisterStep(c) => c \notin Registered(Clients')

C5_SecondConnectionSilent ==
    [][\A c \in Conns :
          /\ (RegisterStep(c) /\ ConnectionsForUser(Clients, UserID[c]) # {})
                => \A d \in Conns : Untouched(d)
          /\ (UnregisterStep(c) /\ ConnectionsForUser(Clients, UserID[c]) \ {c} # {})
                => \A d \in Conns : Untouched(d)
      ]_vars

\* C5, the half about Unregister alone.
C5_UnregisterHalf ==
    [][\A c \in Conns :
          (UnregisterStep(c) /\ ConnectionsForUser(Clients, UserID[c]) \ {c} # {})
              => \A d \in Conns : Untouched(d)
      ]_vars

(* ------------------------------- C6 ------------------------------------ *)

C6_Register ==
    \A c \in Conns :
        (RegisterStep(c) /\ ConnectionsForUser(Clients, UserID[c]) = {}) =>
            /\ \A d \in OthersOf(UserID[c]) :
                  Len(Send[d]) < SendCap =>
                      Delivered(d, UserStatus(MessageTypeUserOnline, UserID[c]))
            /\ \A d \in Conns : UserID[d] = UserID[c] => Untouched(d)

\* C6: when the first connection of user u is registered, user_online{u}
\* is enqueued on every connection registered under another user whose
\* queue has room, and nothing is enqueued on a connection of u.
C6_FirstConnectionOnline == [][C6_Register]_vars

\* C6, restricted to the registrations that start with every registered
\* queue open.
C6_WhenQueuesOpen == [][QueuesOpen => C6_Register]_vars

(* ------------------------------- C7 ------------------------------------ *)

C7_Unregister ==
    \A c \in Conns :
        (UnregisterStep(c) /\ ConnectionsForUser(Clients, UserID[c]) = {c}) =>
            /\ closed'[c]
            /\ UserID[c] \notin DOMAIN Clients'
            /\ \A d \in OthersOf(UserID[c]) :
                  SentOrShed(d, UserStatus(MessageTypeUserOffline, UserID[c]))

\* C7: when Unregister removes the last registered connection c of user
\* u, c's queue is closed, u has no entry in the registry afterwards, and
\* user_offline{u} goes to every connection of every other user (under the
\* router's enqueue semantics: a destination whose queue is full is closed
\* and dropped instead).
C7_LastConnectionOffline == [][C7_Unregister]_vars

\* C7, restricted to the Unregister steps that start with every registered
\* queue open.
C7_WhenQueuesOpen == [][QueuesOpen => C7_Unregister]_vars

(* ------------------------------- C8 ------------------------------------ *)

\* C8: when a hub step other than Unregister empties a user's set of
\* connections (the user's last connection is dropped for a full queue)
\* and the hub goes on running, user_offline for that user is enqueued in
\* that step on every connection that stays registered.
C8_OverflowDropRaisesOffline ==
    [][\A v \in Users :
          (/\ v \in DOMAIN Clients
           /\ v \notin DOMAIN Clients'
           /\ ~ \E c \in Conns : UserID[c] = v /\ UnregisterStep(c)
           /\ panicked' = "none") =>
              \A d \in Registered(Clients') :
                  \E i \in (Len(Send[d]) + 1)..Len(Send'[d]) :
                      Send'[d][i] = UserStatus(MessageTypeUserOffline, v)
      ]_vars

(* ------------------------------- C9 ------------------------------------ *)

C9_Publish ==
    \A m \in Published :
        (ListScoped(m) /\ HubBroadcast(m)) =>
            /\ \A c \in AllConnections :
                  m.list_id \in Lists[c] => SentOrShed(c, m)
            /\ \A c \in Conns : m.list_id \notin Lists[c] => Untouched(c)

\* C9: a published list_update or item_update for list L goes to every
\* registered connection whose subscription set contains L, whoever owns
\* it (under the router's enqueue semantics: exactly one copy is enqueued,
\* or the connection is dropped when its queue is full), and nothing is
\* enqueued on a connection whose subscription set does not contain L.
C9_ListScopedDelivery == [][C9_Publish]_vars

\* C9, restricted to the publishes that start with every registered queue
\* open.
C9_WhenQueuesOpen == [][QueuesOpen => C9_Publish]_vars

(* ------------------------------- C10 ----------------------------------- *)

C10_Publish ==
    \A m \in Published :
        (UserScoped(m) /\ HubBroadcast(m)) =>
            /\ \A c \in AllConnections :
                  UserID[c] = m.user_id => SentOrShed(c, m)
            /\ \A c \in Conns : UserID[c] # m.user_id => Untouched(c)

\* C10: a published share_update or notification for user u goes to every
\* registered connection of u, subscribed to anything or not (under the
\* router's enqueue semantics), and nothing is enqueued on a connection of
\* another user.
C10_UserScopedDelivery == [][C10_Publish]_vars

\* C10, restricted to the publishes that start with every registered
\* queue open.
C10_WhenQueuesOpen == [][QueuesOpen => C10_Publish]_vars

(* ------------------------------- C11 ----------------------------------- *)

\* The connections of the subject user of a presence message.
SubjectConnections(m) == {c \in Conns : UserID[c] = m.user_id}

\* A presence message received on h.Broadcast (broadcastMessage, then
\* broadcastToAll).
C11_ViaBroadcast ==
    \A m \in Presence :
        HubBroadcast(m) =>
            /\ \A c \in AllConnections \ SubjectConnections(m) : SentOrShed(c, m)
            /\ \A c \in SubjectConnections(m) : Untouched(c)

\* A presence message raised by the hub itself (broadcastUserStatus, from
\* registerClient and unregisterClient).
C11_ViaUserStatus ==
    \A c \in Conns :
        /\ RegisterStep(c) =>
              LET m == UserStatus(MessageTypeUserOnline, UserID[c]) IN
              /\ \A d \in OthersOf(UserID[c]) : SentOrShed(d, m)
              /\ \A d \in SubjectConnections(m) : Untouched(d)
        /\ (UnregisterStep(c) /\ ConnectionsForUser(Clients, UserID[c]) = {c}) =>
              LET m == UserStatus(MessageTypeUserOffline, UserID[c]) IN
              /\ \A d \in OthersOf(UserID[c]) : SentOrShed(d, m)
              /\ \A d \in SubjectConnections(m) : Untouched(d)

\* C11: a user_online or user_offline message goes to every registered
\* connection except those of the subject user (the message's user_id),
\* which get nothing, both when the message comes in on the Broadcast
\* channel and when the hub raises it in broadcastUserStatus.
C11_PresenceExcludesSubject == [][C11_ViaBroadcast /\ C11_ViaUserStatus]_vars

\* C11, the half about broadcastUserStatus, for the steps that start with
\* every registered queue open.
C11_UserStatusHalf == [][QueuesOpen => C11_ViaUserStatus]_vars

\* C11, the part of the other half that holds: a presence message received
\* on h.Broadcast goes to every connection of the other users (steps that
\* start with every registered queue open).
C11_BroadcastReachesOthers ==
    [][QueuesOpen =>
          \A m \in Presence :
              HubBroadcast(m) =>
                  \A c \in AllConnections \ SubjectConnections(m) : SentOrShed(c, m)
      ]_vars

(* ------------------------------- C12 ----------------------------------- *)

Unstamp(message) == [message EXCEPT !.time = 0]

\* The messages enqueued on c and not yet sent in a completed frame, oldest
\* first: those already written into the frame under construction, then
\* those still in the queue.
Pending(c) == [i \in 1..Len(wire[c]) |-> Unstamp(wire[c][i])] \o Send[c]

IsPrefix(p, q) == Len(p) <= Len(q) /\ SubSeq(q, 1, Len(p)) = p

C12_Fifo ==
    /\ \A c \in Conns :
          \/ IsPrefix(Pending(c), Pending(c)')
          \/ /\ WriterRecv(c) \/ WriterCoalesce(c) \/ WriterFail(c)
             /\ \E k \in 1..Len(Pending(c)) :
                   Pending(c)' = SubSeq(Pending(c), k + 1, Len(Pending(c)))
    /\ hub' # hub => (hub = HubSelect \/ hub' = HubSelect)

\* C12: per connection, messages leave in the order they were enqueued.
\* The hub loop takes one request at a time, so a producer's E1 is wholly
\* dispatched before its E2 is received; every enqueue on c goes to the
\* tail of what c has pending; and the writer takes the oldest pending
\* message first, also inside one coalesced frame, which is sent (or lost
\* with the transport) as a whole.
C12_PerConnectionFifo == [][C12_Fifo]_vars

\* share_update then notification were published for user 1 and enqueued
\* on a1; the writer has written the first into a frame and is about to
\* coalesce the second into it.
C12_Witness ==
    /\ wr["a1"] = "coalesce"
    /\ wire["a1"] = <<Stamp(BroadcastShareUpdate(1))>>
    /\ Send["a1"] = <<BroadcastNotification(1)>>

(* ------------------------------- C13 ----------------------------------- *)

\* Publisher p is inside a Broadcast* call.
InCall(p) == pub[p] # NoMessage

\* C13: every Broadcast* call eventually returns, whether or not any
\* connection drains its queue.
C13_PublishReturns == \A p \in Publishers : InCall(p) ~> ~InCall(p)

\* C13, for the behaviours in which no goroutine panics: the call returns
\* however full the queues are.
C13_UnlessPanic == \A p \in Publishers : InCall(p) ~> (~InCall(p) \/ ~Alive)

(* ------------------------------- C14 ----------------------------------- *)

\* C14: a Broadcast* call never has to wait for the hub loop: whenever a
\* publisher is inside a call (and the process is running), the call can
\* return at once, whatever the loop is doing.
C14_PublishNonBlocking ==
    \A p \in Publishers : (Alive /\ InCall(p)) => ENABLED RunBroadcast(p)

\* C14, the part that holds: the call does not wait for the fan-out of its
\* own message; it returns in the step in which the loop receives the
\* message, before broadcastMessage runs on it.
C14_ReturnsBeforeOwnFanOut ==
    [][\A p \in Publishers :
          (InCall(p) /\ ~InCall(p)') =>
              /\ hub' = HubAt("broadcast", "", pub[p])
              /\ UNCHANGED <<Clients, Send, closed>>
      ]_vars

(* ------------------------------- C15 ----------------------------------- *)

\* The hub loop has processed the Unregister request of connection c.
Unregistered(c) ==
    rd[c] = "done" /\ hub # HubAt("unregister", c, NoMessage)

\* Nothing is enqueued on a connection once its Unregister is processed.
C15_NothingEnqueued ==
    \A a \in Conns : Unregistered(a) => Len(Send'[a]) <= Len(Send[a])

\* A list update dispatched after some Unregister was processed goes to
\* every registered connection subscribed to the list.
C15_OthersServed ==
    \A m \in Published :
        (ListScoped(m) /\ HubBroadcast(m) /\ \E a \in Conns : Unregistered(a)) =>
            \A c \in AllConnections : m.list_id \in Lists[c] => SentOrShed(c, m)

\* An Unregister that is processed (its handler returns) for the only
\* connection of a user leaves no entry for that user.
C15_EntryRemoved ==
    \A a \in Conns :
        (/\ UnregisterStep(a)
         /\ ConnectionsForUser(Clients, UserID[a]) = {a}
         /\ panicked' = "none") => UserID[a] \notin DOMAIN Clients'

\* C15: once Unregister of connection A has been processed nothing is
\* enqueued on A any more, every registered connection subscribed to the
\* list of a later update is served (enqueued, or dropped when its queue
\* is full), and if A was its user's only connection the user has no entry
\* in the registry.
C15_UnregisteredGetsNothing ==
    [][C15_NothingEnqueued /\ C15_OthersServed /\ C15_EntryRemoved]_vars

\* C15 without the delivery to the other subscribers.
C15_UnregisteredHalf == [][C15_NothingEnqueued /\ C15_EntryRemoved]_vars

\* C15, for the steps that start with every registered queue open.
C15_WhenQueuesOpen == [][QueuesOpen => C15_OthersServed]_vars

(* ------------------------------- C16 ----------------------------------- *)

\* readPump hands connection c's handler a client message of type t for a
\* list id above zero.
Handles(c, t, l) == l > 0 /\ ReadFrame(c, [type |-> t, list_id |-> l])

\* The handler's reply under the drop-and-disconnect discipline: enqueued
\* on c's own queue when the queue has room.
Replied(c, type, l) ==
    Len(Send[c]) < SendCap => Delivered(c, Message(type, 0, l))

C16_Subscribe ==
    \A c \in Conns, l \in ListIDs :
        Handles(c, ClientMessageSubscribe, l) =>
            /\ Lists'[c] = Lists[c] \cup {l}
            /\ Replied(c, "subscribed", l)

\* What a dispatched list update does for the subscribed connections.
C16_Served ==
    \A m \in Published :
        (ListScoped(m) /\ HubBroadcast(m)) =>
            \A c \in AllConnections : m.list_id \in Lists[c] => SentOrShed(c, m)

\* C16: subscribe(listID) on connection C adds listID to C's subscription
\* set and enqueues a 'subscribed' confirmation with that list_id on C's
\* own queue (when the queue has room), and every update of a list
\* dispatched while C is registered and subscribed to it is enqueued on C
\* (or C is dropped when its queue is full).
C16_SubscribeConfirmed == [][C16_Subscribe /\ C16_Served]_vars

\* C16, for the steps in which the queues concerned are open.
C16_WhenQueuesOpen ==
    [][/\ \A c \in Conns, l \in ListIDs :
             (~closed[c] /\ Handles(c, ClientMessageSubscribe, l)) =>
                 /\ Lists'[c] = Lists[c] \cup {l}
                 /\ Replied(c, "subscribed", l)
       /\ QueuesOpen => C16_Served
      ]_vars

(* ------------------------------- C17 ----------------------------------- *)

C17_Unsubscribe ==
    \A c \in Conns, l \in ListIDs :
        Handles(c, ClientMessageUnsubscribe, l) =>
            /\ Lists'[c] = Lists[c] \ {l}
            /\ \A d \in Conns \ {c} : Lists'[d] = Lists[d]
            /\ Replied(c, "unsubscribed", l)

\* No list update reaches a connection that is not subscribed to the list.
C17_NotServed ==
    \A m \in Published :
        (ListScoped(m) /\ HubBroadcast(m)) =>
            \A c \in Conns : m.list_id \notin Lists[c] => Untouched(c)

\* C17: unsubscribe(listID) on connection C removes listID from C's
\* subscription set and from no other, enqueues an 'unsubscribed'
\* confirmation with that list_id on C (when the queue has room), and no
\* update of the list dispatched while C is not subscribed to it is
\* enqueued on C.
C17_UnsubscribeConfirmed == [][C17_Unsubscribe /\ C17_NotServed]_vars

\* C17, for the steps in which the connection's queue is open.
C17_WhenQueuesOpen ==
    [][/\ \A c \in Conns, l \in ListIDs :
             (~closed[c] /\ Handles(c, ClientMessageUnsubscribe, l)) =>
                 /\ Lists'[c] = Lists[c] \ {l}
                 /\ \A d \in Conns \ {c} : Lists'[d] = Lists[d]
                 /\ Replied(c, "unsubscribed", l)
       /\ C17_NotServed
      ]_vars

(* ------------------------------- C18 ----------------------------------- *)

\* c's reader loop has exited (readPump is in, or past, its deferred
\* function).
ReaderExited(c) == rd[c] \in {"at_unregister", "done"}

\* Nothing of c is left: no registry reference, a closed queue, and both
\* loops ended with the transport closed.
TornDown(c) ==
    /\ c \notin AllConnections
    /\ closed[c]
    /\ rd[c] = "done"
    /\ wr[c] = "done"
    /\ connClosed[c]

\* C18: whenever a connection's reader loop exits, the connection is
\* eventually absent from the registry with its queue closed, and its
\* writer loop has exited and the transport is closed.
C18_ReaderExitTearsDown == \A c \in Conns : ReaderExited(c) ~> TornDown(c)

\* C18, for the behaviours in which no goroutine panics.
C18_UnlessPanic == \A c \in Conns : ReaderExited(c) ~> (TornDown(c) \/ ~Alive)

(* ------------------------------- C19 ----------------------------------- *)

\* C19: the handler of an Unregister request for a connection that is not
\* in the registry (the hub dropped it for a full queue) changes neither
\* the registry nor any queue, closes nothing and enqueues no presence
\* message.
C19_DoubleUnregister ==
    [][\A c \in Conns :
          (UnregisterStep(c) /\ c \notin AllConnections) =>
              UNCHANGED <<Clients, Send, closed, panicked>>
      ]_vars

\* The loop has received the Unregister request of b1, which the hub
\* dropped earlier for a full queue, while user 1 is still registered.
C19_Witness ==
    /\ Alive
    /\ hub = HubAt("unregister", "b1", NoMessage)
    /\ "b1" \notin AllConnections
    /\ closed["b1"]
    /\ 1 \in DOMAIN Clients

(* ------------------------------- C20 ----------------------------------- *)

\* Nothing exists of a connection whose upgrade failed.
NeverCreated(c) ==
    /\ c \notin AllConnections
    /\ Send[c] = << >> /\ ~closed[c]
    /\ rd[c] = "none" /\ wr[c] = "none"
    /\ hub.client # c

\* C20: a ServeWS call whose upgrade fails changes neither the registry
\* nor any queue and starts no loop, and nothing of that connection ever
\* exists afterwards.
C20_UpgradeFailure ==
    /\ [](\A c \in Conns : srv[c] = "failed" => NeverCreated(c))
    /\ [][\A c \in Conns :
             ServeWSUpgradeFails(c) =>
                 /\ srv'[c] = "failed"
                 /\ UNCHANGED <<Clients, Send, closed, Lists, rd, wr, hub>>
         ]_vars

\* The upgrade of b1 failed while a1 is registered.
C20_Witness ==
    /\ srv["b1"] = "failed"
    /\ "a1" \in AllConnections

(* ------------------------------- C21 ----------------------------------- *)

\* The connections that were ever registered (ServeWS got past Register).
EverRegistered == {c \in Conns : srv[c] = "serving"}

\* No ServeWS call is waiting on Register and the reader loop of every
\* connection ever registered has exited.
ReadersExited ==
    /\ \A c \in Conns : srv[c] # "at_register"
    /\ \A c \in EverRegistered : ReaderExited(c)

\* Moreover the hub loop has received every Unregister request and is
\* back in its select.
Settled ==
    /\ ReadersExited
    /\ \A c \in EverRegistered : rd[c] = "done"
    /\ hub = HubSelect

RegistryEmpty == DOMAIN Clients = {}

NothingRunning ==
    \A c \in EverRegistered : rd[c] = "done" /\ wr[c] = "done"

\* C21: connect/disconnect cycles leak nothing.  Whenever the hub has
\* processed every request and the reader loop of every connection ever
\* registered has exited, the registry is empty; and once those reader
\* loops have exited, the hub eventually has processed every request, the
\* registry is empty and no reader or writer loop of those connections is
\* running (unless a new connection is opened first).
C21_NoLeak ==
    /\ []((Alive /\ Settled) => RegistryEmpty)
    /\ ReadersExited ~>
           ((Settled /\ RegistryEmpty /\ NothingRunning) \/ ~ReadersExited)

\* C21, for the behaviours in which no goroutine panics.
C21_UnlessPanic ==
    /\ []((Alive /\ Settled) => RegistryEmpty)
    /\ ReadersExited ~>
           \/ Settled /\ RegistryEmpty /\ NothingRunning
           \/ ~ReadersExited
           \/ ~Alive

(* ------------------------------- C22 ----------------------------------- *)

\* Some goroutine is waiting for another one: the hub loop is inside a
\* handler (it needs the registry lock), a publisher is blocked on
\* Broadcast, a ServeWS call on Register, a reader on Unregister, or a
\* GetOnlineUsers call holds the read lock the hub loop may need.
SomeoneWaiting ==
    \/ hub # HubSelect
    \/ \E p \in Publishers : InCall(p)
    \/ \E c \in Conns : srv[c] = "at_register" \/ rd[c] = "at_unregister"
    \/ reading # {}

\* A step of the hub loop, or the end of a GetOnlineUsers call.
LockProgress == HubLoop \/ \E g \in Callers : GetOnlineUsersRUnlock(g)

\* The handler the hub loop is in runs to its end and the loop is back in
\* its select.
HandlerReturns ==
    /\ hub # HubSelect
    /\ \/ \E c \in Conns : HubRegister(c) \/ HubUnregister(c)
       \/ \E m \in Broadcastable : HubBroadcast(m)
    /\ hub' = HubSelect

\* C22: the hub never deadlocks.  Whenever some goroutine waits for the
\* hub loop or for the registry lock, the hub loop or the lock holder can
\* take a step; and whenever the hub loop is inside a handler and the lock
\* it needs is free, the handler can run to its end (no send blocks) and
\* the loop is back receiving.
C22_NoDeadlock ==
    /\ SomeoneWaiting => ENABLED LockProgress
    /\ (hub # HubSelect /\ (hub.op = "broadcast" \/ MutexLock))
           => ENABLED HandlerReturns

\* C22, for the states of a running process.
C22_UnlessPanic == Alive => C22_NoDeadlock

\* A state in which every kind of waiting occurs at once: the loop is about
\* to take the write lock for a1's registration while a GetOnlineUsers call
\* holds the read lock, a publisher is blocked on Broadcast and b1's
\* ServeWS on Register.
C22_Case ==
    /\ Alive
    /\ hub = HubAt("register", "a1", NoMessage)
    /\ reading # {}
    /\ \E p \in Publishers : InCall(p)
    /\ srv["b1"] = "at_register"

(* ------------------------------- C23 ----------------------------------- *)

\* C23: every message in an outbound queue carries a non-zero server
\* timestamp, assigned when it was dispatched.
C23_StampedAtDispatch ==
    \A c \in Conns : \A i \in 1..Len(Send[c]) : Send[c][i].time # 0

\* C23, the part that holds: every message the writer has written into a
\* frame carries a timestamp.
C23_StampedByWriter ==
    \A c \in Conns : \A i \in 1..Len(wire[c]) : wire[c][i].time # 0

\* A frame under construction holds a stamped message while the next one
\* waits in the queue with its Time unset.
C23_Case ==
    \E c \in Conns :
        /\ wire[c] # << >> /\ wire[c][1].time = TimeNow
        /\ Send[c] # << >> /\ Send[c][1].time = 0

(* ------------------------------- C24 ----------------------------------- *)

\* readPump reads, on connection c, a frame that does not decode or a
\* client message of a type the handler does not know.
ProtocolError(c) ==
    \/ ReadMalformed(c)
    \/ \E l \in ListIDs : ReadFrame(c, [type |-> "other", list_id |-> l])

\* C24: a malformed frame or a client message of unknown type leaves the
\* connection open, reading and registered as before, and changes no
\* subscription set, no queue and nothing of any other connection.
C24_ProtocolErrorIgnored ==
    [][\A c \in Conns :
          ProtocolError(c) =>
              /\ rd'[c] = "read" /\ ~connClosed'[c]
              /\ c \in Registered(Clients') <=> c \in AllConnections
              /\ UNCHANGED <<Clients, Send, closed, Lists, srv, rd, wr, wn,
                             connClosed, panicked, hub, pub, wire, reading>>
      ]_vars

\* The state after a1 subscribed to list 1 and then sent a frame that was
\* ignored: both events of the environment are over and all there is to
\* see is what the subscribe did.
C24_Witness ==
    /\ Alive /\ nInputs = 0
    /\ AllConnections = {"a1"} /\ EverRegistered = {"a1"}
    /\ srv["a2"] = "idle" /\ srv["b1"] = "idle"
    /\ rd["a1"] = "read" /\ wr["a1"] = "select" /\ ~connClosed["a1"]
    /\ Lists["a1"] = {1}
    /\ Send["a1"] = <<Message("subscribed", 0, 1)>> /\ ~closed["a1"]
    /\ hub = HubSelect /\ reading = {}
    /\ \A p \in Publishers : ~InCall(p)

(* ------------------------------- C25 ----------------------------------- *)

\* C25: the user-to-connections map is never mutated while a
\* GetOnlineUsers call holds the read lock and reads it.
C25_MapExclusion == [][reading # {} => Clients' = Clients]_vars

\* C25, the part that holds: the handlers that take the write lock
\* (registerClient, unregisterClient) never run while the read lock is
\* held.
C25_WriteLockExcludes ==
    [][reading # {} =>
          \A c \in Conns : ~RegisterStep(c) /\ ~UnregisterStep(c)]_vars

(* ------------------------------- C26 ----------------------------------- *)

\* c's writer loop has exited while its reader loop is still running.
WriterExitedFirst(c) == wr[c] = "done" /\ ~ReaderExited(c)

\* C26: when the writer loop of a connection exits first (a write failed),
\* the transport is closed, the reader loop eventually exits, and the
\* connection is eventually out of the registry with its queue closed.
C26_WriterExitTearsDown ==
    /\ [](\A c \in Conns : wr[c] = "done" => connClosed[c])
    /\ \A c \in Conns : WriterExitedFirst(c) ~> TornDown(c)

\* C26, for the behaviours in which no goroutine panics.
C26_UnlessPanic ==
    /\ [](\A c \in Conns : wr[c] = "done" => connClosed[c])
    /\ \A c \in Conns : WriterExitedFirst(c) ~> (TornDown(c) \/ ~Alive)

(* ------------------------------- C27 ----------------------------------- *)

\* A step in which the hub loop attempts to enqueue on connection c: c is
\* a destination of the message it dispatches, or of the presence message
\* it raises.
HubAttempts(c) ==
    \/ \E m \in Published : HubBroadcast(m) /\ c \in Destinations(m)
    \/ \E m \in Presence : HubBroadcast(m) /\ c \in AllConnections
    \/ \E d \in Conns : RegisterStep(d) /\ c \in OthersOf(UserID[d])
    \/ \E d \in Conns :
          /\ UnregisterStep(d)
          /\ ConnectionsForUser(Clients, UserID[d]) = {d}
          /\ c \in OthersOf(UserID[d])

\* A step in which c's reader attempts to enqueue a reply on c.
ReaderAttempts(c) ==
    \E cm \in ClientMessages : ReadFrame(c, cm) /\ Response(cm) # NoMessage

\* What an attempt to enqueue on a full queue does: nothing is added; the
\* hub closes the queue and removes the connection in the same step; the
\* reader takes the default branch, and its next step closes the queue
\* and is to leave the connection dropped too.
C27_FullQueue ==
    \A c \in Conns :
        /\ Len(Send[c]) = SendCap =>
              /\ Len(Send'[c]) <= Len(Send[c])
              /\ HubAttempts(c) => Shed(c)
              /\ ReaderAttempts(c) => rd'[c] = "close_send"
        /\ ReaderCloseSend(c) => Shed(c)

\* C27: no outbound queue ever holds more messages than its capacity; an
\* enqueue attempt on a full queue adds nothing and does not block: it
\* drops the connection (the queue is closed and the connection is out of
\* the registry).
C27_QueueBounded ==
    /\ [](\A c \in Conns : Len(Send[c]) <= SendCap)
    /\ [][C27_FullQueue]_vars

\* C27, the part that holds: the bound, and that an attempt on a full queue
\* adds nothing, never blocks and, in a hub step that starts with every
\* registered queue open, drops the connection.
C27_WhenQueuesOpen ==
    /\ [](\A c \in Conns : Len(Send[c]) <= SendCap)
    /\ [][\A c \in Conns :
             Len(Send[c]) = SendCap =>
                 /\ Len(Send'[c]) <= Len(Send[c])
                 /\ (QueuesOpen /\ HubAttempts(c)) => Shed(c)
                 /\ (~closed[c] /\ ReaderAttempts(c)) => rd'[c] = "close_send"
         ]_vars

\* C27, for the attempts of the hub loop alone.
C27_HubAttemptDrops ==
    [][\A c \in Conns :
          (Len(Send[c]) = SendCap /\ HubAttempts(c)) => Shed(c)]_vars

\* b1's queue is full and the hub loop has just dropped b1 for it.
C27_Case ==
    /\ Alive
    /\ Len(Send["b1"]) = SendCap
    /\ closed["b1"] /\ "b1" \notin AllConnections
    /\ rd["b1"] = "read"
    /\ "a1" \in AllConnections

(* ------------------------------- C28 ----------------------------------- *)

\* readPump hands c's handler a subscribe or unsubscribe whose list_id is
\* zero (also the value of an absent list_id) or negative.
HandlesNoList(c) ==
    \E cm \in ClientMessages :
        /\ cm.type \in {ClientMessageSubscribe, ClientMessageUnsubscribe}
        /\ cm.list_id <= 0
        /\ ReadFrame(c, cm)

\* C28: a subscribe or unsubscribe whose list_id is zero, negative or
\* absent changes no subscription set and enqueues nothing; no
\* subscription set ever contains a list id <= 0; and a list_update or
\* item_update published for such a list id is enqueued on no connection.
C28_NoListIgnored ==
    /\ [](\A c \in Conns : \A l \in Lists[c] : l > 0)
    /\ [][\A c \in Conns :
             HandlesNoList(c) => UNCHANGED <<Lists, Send, closed, rd, panicked>>
         ]_vars
    /\ [][\A m \in Published :
             (ListScoped(m) /\ m.list_id <= 0 /\ HubBroadcast(m)) =>
                 UNCHANGED <<Send, Clients, closed, panicked>>
         ]_vars

\* The hub loop is about to dispatch a list_update published for list id 0
\* while a1 is registered and subscribed to list 1.
C28_Witness ==
    /\ Alive
    /\ hub = HubAt("broadcast", "", BroadcastListUpdate(0))
    /\ "a1" \in AllConnections
    /\ Lists["a1"] = {1}

(* ------------------------------- C29 ----------------------------------- *)

\* Connection c's queue grows in this step, and by what.
Grows(c) == Len(Send'[c]) > Len(Send[c])
Enqueued(c) == Send'[c][Len(Send'[c])]

\* The event the hub loop dispatches in the handler it is in: the message
\* it received on Broadcast, or the presence message of the connection it
\* registers or unregisters.
HubEvent ==
    CASE hub.op = "broadcast" -> hub.message
      [] hub.op = "register" ->
            UserStatus(MessageTypeUserOnline, UserID[hub.client])
      [] hub.op = "unregister" ->
            UserStatus(MessageTypeUserOffline, UserID[hub.client])
      [] OTHER -> NoMessage

\* The hub loop ends a handler and is back in its select.
HubStep == hub # HubSelect /\ hub' = HubSelect

\* Events are enqueued one dispatch at a time.  A queue grows by one
\* message, at its tail; in a step of the hub loop every queue that grows
\* receives the one event of the request being handled; in any other step
\* only the stepping connection's own queue grows, by a reply of its
\* protocol handler, which is no event; and the loop takes the next
\* request only when the handler of the previous one has returned.
C29_OneDispatchAtATime ==
    /\ \A c \in Conns : Grows(c) => Send'[c] = Append(Send[c], Enqueued(c))
    /\ HubStep => \A c \in Conns : Grows(c) => Enqueued(c) = HubEvent
    /\ ~HubStep =>
          \A c \in Conns :
              Grows(c) =>
                  /\ Enqueued(c).type \in {"subscribed", "unsubscribed", "pong"}
                  /\ \A d \in Conns \ {c} : ~Grows(d)
    /\ hub' # hub => (HubStep \/ hub = HubSelect)

\* C29: all connections agree on the order of events.  Every event is
\* enqueued on all its destinations, at the tail of each queue, within the
\* one step of the hub loop that handles it, so of two events the one
\* dispatched first precedes the other on every connection that gets both.
C29_SameOrderEverywhere == [][C29_OneDispatchAtATime]_vars

\* a1 and a2 both hold user_online{2} followed by a notification for
\* user 1, the order in which the hub loop handled them.
C29_Witness ==
    /\ Send["a1"] = <<UserStatus(MessageTypeUserOnline, 2), BroadcastNotification(1)>>
    /\ Send["a2"] = Send["a1"]

(* ------------------------------- C30 ----------------------------------- *)

\* A write on c's transport fails in this step: NextWriter on a closed
\* transport, or w.Close / the ping.
WriteError(c) == WriterFail(c) \/ (connClosed[c] /\ WriterRecv(c))

\* c's writer takes the oldest queued message and writes it, stamped, into
\* the frame it is building, or completes the frame with it and sends it.
WritesHead(c) ==
    /\ Send[c] # << >>
    /\ Send'[c] = Tail(Send[c])
    /\ \/ wire'[c] = Append(wire[c], Stamp(Head(Send[c])))
       \/ wire'[c] = << >> /\ wr'[c] = "select"

\* What closing a queue, and the writer's steps on a closed queue, do to
\* the messages queued: the close removes none; the writer observes the
\* closure only with nothing left in the queue or in a frame; and until a
\* write fails every step it takes on the closed queue writes the oldest
\* message.
C30_Drain ==
    \A c \in Conns :
        /\ (~closed[c] /\ closed'[c]) => Pending(c)' = Pending(c)
        /\ WriterClosed(c) => Pending(c) = << >>
        /\ (closed[c] /\ Pending(c)' # Pending(c)) =>
              WriteError(c) \/ WritesHead(c)

\* C30: closing a connection's outbound queue discards nothing of it.
\* Absent a write error the writer loop writes every message enqueued
\* before the close, oldest first, before it observes the closure, sends
\* the close frame and exits.
C30_CloseKeepsQueued == [][C30_Drain]_vars

\* The hub dropped b1 for a full queue, and b1's writer, on the open
\* transport, has written the first of the queued messages into a frame.
C30_Witness ==
    /\ Alive
    /\ closed["b1"] /\ "b1" \notin AllConnections
    /\ ~connClosed["b1"]
    /\ wr["b1"] = "coalesce"
    /\ wire["b1"] # << >> /\ Send["b1"] # << >>

====
